---- MODULE Spec2Model ----
(***************************************************************************)
(* Two-pass assembler front end (src/parser.cpp) and the interactive       *)
(* driver (src/main.cpp) of the RISC-V pipeline simulator.                 *)
(*                                                                         *)
(* A string is a sequence of one-character strings.  Positions are         *)
(* 1-based; npos (string::npos) is 0.                                      *)
(***************************************************************************)
EXTENDS Integers, Sequences, FiniteSets, TLC

VARIABLES
    pc,               \* position of main()
    lines,            \* vector<string> lines (readAndPreprocess / main)
    idx,              \* index of the next line of the running for-loop
    symbolTable,      \* SYMBOL_TABLE: label -> address
    currentAddress,   \* buildSymbolTable's currentAddress
    stAddr,           \* value of buildSymbolTable's currentAddress on reaching each line
    instructions,     \* vector<ParsedInstruction>
    instLine,         \* index in lines of the line each instruction came from
    parseAddress,     \* parseInstructions' currentAddress
    DATA_SEGMENT,     \* address -> 32-bit value
    mem,              \* simulator byte memory: the bytes written so far (the rest is 0)
    loaded,           \* addresses of DATA_SEGMENT already loaded
    simPC,            \* sim.get_pc()
    runI,             \* Run All's loop variable i
    runSteps,         \* step() calls made by the current Run All
    lastAddr,         \* what instructions.back().address evaluated to
    edits             \* number of pre-execution memory edits made

vars == <<pc, lines, idx, symbolTable, currentAddress, stAddr, instructions,
          instLine, parseAddress, DATA_SEGMENT, mem, loaded, simPC, runI,
          runSteps, lastAddr, edits>>

asmVars == <<lines, idx, symbolTable, currentAddress, stAddr, instructions,
             instLine, parseAddress>>

simVars == <<DATA_SEGMENT, mem, loaded, simPC, runI, runSteps, lastAddr, edits>>

(***************************************************************************)
(* Bounds of the model                                                     *)
(***************************************************************************)
MaxLineLen == 3      \* characters of one raw input line
MaxFileLen == 4      \* characters of all kept lines together
MaxBody == 6         \* characters of an operand string
MaxInstr == 2        \* instructions of a program handed to the driver
MaxEntries == 2      \* entries of the data segment
MaxEdits == 1        \* pre-execution memory edits

(***************************************************************************)
(* Program constants                                                       *)
(***************************************************************************)
INSTRUCTION_MEMORY_START == 128
RUN_ALL_CAP == 1000
MEM_SIZE == 128
WORD_VIEW_LIMIT == 124

(***************************************************************************)
(* Strings                                                                 *)
(***************************************************************************)
npos == 0

\* " \t\r\n": the set the parser's trims name
TrimChars == {" ", "\t", "\r", "\n"}

\* ::isspace and the whitespace operator>> skips, in the "C" locale
\* (the vertical tab, classified like the form feed, has no TLA+ escape)
IsSpaceChars == {" ", "\t", "\r", "\n", "\f"}

Min(S) == CHOOSE m \in S : \A n \in S : m <= n
Max(S) == CHOOSE m \in S : \A n \in S : m >= n

\* string::find(c)
Find(s, c) ==
    LET hits == {i \in DOMAIN s : s[i] = c}
    IN  IF hits = {} THEN npos ELSE Min(hits)

\* string::find_first_of(set)
FindFirstOf(s, set) ==
    LET hits == {i \in DOMAIN s : s[i] \in set}
    IN  IF hits = {} THEN npos ELSE Min(hits)

\* string::find_first_not_of(set)
FindFirstNotOf(s, set) ==
    LET hits == {i \in DOMAIN s : s[i] \notin set}
    IN  IF hits = {} THEN npos ELSE Min(hits)

\* string::find_last_not_of(set)
FindLastNotOf(s, set) ==
    LET hits == {i \in DOMAIN s : s[i] \notin set}
    IN  IF hits = {} THEN npos ELSE Max(hits)

\* s.erase(0, s.find_first_not_of(set)): npos erases everything
EraseLeading(s, set) ==
    LET p == FindFirstNotOf(s, set)
    IN  IF p = npos THEN <<>> ELSE SubSeq(s, p, Len(s))

\* s.erase(s.find_last_not_of(set) + 1): npos + 1 wraps to 0 and erases everything
EraseTrailing(s, set) ==
    LET p == FindLastNotOf(s, set)
    IN  IF p = npos THEN <<>> ELSE SubSeq(s, 1, p)

\* s.erase(remove_if(s.begin(), s.end(), ::isspace), s.end())
RemoveSpaces(s) == SelectSeq(s, LAMBDA c : c \notin IsSpaceChars)

\* the text before position p
Before(s, p) == SubSeq(s, 1, p - 1)

\* the text after position p
After(s, p) == SubSeq(s, p + 1, Len(s))

StringsUpTo(alphabet, n) == UNION {[1..k -> alphabet] : k \in 0..n}

RECURSIVE SumLen(_)
SumLen(ss) == IF ss = <<>> THEN 0 ELSE Len(Head(ss)) + SumLen(Tail(ss))

EmptyMap == [x \in {} |-> 0]

(***************************************************************************)
(* readAndPreprocess: one iteration of the getline loop                    *)
(***************************************************************************)
StripComment(line) ==
    LET commentPos == Find(line, "#")
    IN  IF commentPos # npos THEN Before(line, commentPos) ELSE line

Preprocess(raw) ==
    EraseTrailing(EraseLeading(StripComment(raw), TrimChars), TrimChars)

Kept(line) == line # <<>> /\ line[1] # "."

(***************************************************************************)
(* buildSymbolTable: one iteration of the loop over lines                  *)
(***************************************************************************)
IsDirective(line) == line # <<>> /\ line[1] = "."

LabelOf(line) == RemoveSpaces(Before(line, Find(line, ":")))

RestOfLabelLine(line) == EraseLeading(After(line, Find(line, ":")), TrimChars)

\* the duplicate test left out
IsBound_NoCheck(table, label) == FALSE

\* symbolTable.count(label)
IsBound(table, label) == label \in DOMAIN table

\* the address counter after the line
AdvanceSymbol(line, addr) ==
    IF Find(line, ":") # npos
    THEN IF RestOfLabelLine(line) # <<>> THEN addr + 4 ELSE addr
    ELSE addr + 4

(***************************************************************************)
(* parseInstructions: one iteration of the loop over lines                 *)
(***************************************************************************)
\* the line with a leading label removed
StripLabel(line) ==
    LET labelPos == Find(line, ":")
    IN  IF labelPos # npos THEN EraseLeading(After(line, labelPos), TrimChars)
        ELSE line

\* ss >> mnemonic: skip whitespace, read up to the next whitespace
Mnemonic(cur) ==
    LET start == FindFirstNotOf(cur, IsSpaceChars)
        tail == SubSeq(cur, start, Len(cur))
        stop == FindFirstOf(tail, IsSpaceChars)
    IN  IF start = npos THEN <<>>
        ELSE IF stop = npos THEN tail ELSE SubSeq(tail, 1, stop - 1)

\* getline(ss, restOfLine): what follows the mnemonic
OperandString(cur) ==
    LET start == FindFirstNotOf(cur, IsSpaceChars)
    IN  IF start = npos THEN <<>>
        ELSE SubSeq(cur, start + Len(Mnemonic(cur)), Len(cur))

\* split(s, delimiter): the pieces between delimiters, each trimmed
RECURSIVE SplitRaw(_, _)
SplitRaw(s, d) ==
    LET p == Find(s, d)
    IN  IF p = npos THEN <<s>>
        ELSE <<Before(s, p)>> \o SplitRaw(After(s, p), d)

Trim(s) == EraseTrailing(EraseLeading(s, TrimChars), TrimChars)

split(s, d) ==
    IF s = <<>> THEN <<>>
    ELSE LET raw == SplitRaw(s, d) IN [i \in DOMAIN raw |-> Trim(raw[i])]

LW == <<"l", "w">>
SW == <<"s", "w">>
J == <<"j">>

IsLoadStore(mnemonic) == mnemonic = LW \/ mnemonic = SW

\* the check on the address operand of lw / sw
BadAddressFormat(immAndBase) ==
    LET openParen == Find(immAndBase, "(")
        closeParen == Find(immAndBase, ")")
    IN  openParen = npos \/ closeParen = npos \/ closeParen < openParen

\* base register and immediate pushed in the other order
LoadStoreOperands_Swapped(parts) ==
    LET immAndBase == parts[2]
        openParen == Find(immAndBase, "(")
        closeParen == Find(immAndBase, ")")
        imm == Before(immAndBase, openParen)
        baseReg == RemoveSpaces(SubSeq(immAndBase, openParen + 1, closeParen - 1))
    IN  <<parts[1], imm, baseReg>>

\* operands of an accepted lw / sw: destReg, baseReg, imm
LoadStoreOperands(parts) ==
    LET destReg == parts[1]
        immAndBase == parts[2]
        openParen == Find(immAndBase, "(")
        closeParen == Find(immAndBase, ")")
        imm == Before(immAndBase, openParen)
        baseReg == RemoveSpaces(SubSeq(immAndBase, openParen + 1, closeParen - 1))
    IN  <<destReg, baseReg, imm>>

\* the outcome of one loop iteration: the line is skipped, the process exits,
\* or an instruction is pushed
ParseLine(line, addr) ==
    LET cur == StripLabel(line)
        mnemonic == Mnemonic(cur)
        restOfLine == OperandString(cur)
        parts == split(restOfLine, ",")
        pInst == [mnemonic |-> mnemonic, address |-> addr, originalLine |-> line,
                  operands |-> <<>>]
    IN  IF cur = <<>> \/ mnemonic = <<>> THEN [kind |-> "skip"]
        ELSE IF IsLoadStore(mnemonic)
        THEN IF Len(parts) # 2 THEN [kind |-> "exit"]
             ELSE IF BadAddressFormat(parts[2]) THEN [kind |-> "exit"]
             ELSE [kind |-> "inst",
                   inst |-> [pInst EXCEPT !.operands = LoadStoreOperands(parts)]]
        ELSE [kind |-> "inst", inst |-> [pInst EXCEPT !.operands = parts]]

(***************************************************************************)
(* main(), assembly phase: lines 64-94                                     *)
(***************************************************************************)
Alphabet == {"a", ":", ".", " ", "\f", "#"}

RawLines == StringsUpTo(Alphabet, MaxLineLen)

\* what the loop body makes of each raw line
PreprocessedLines == {Preprocess(raw) : raw \in RawLines}

\* one getline of readAndPreprocess: the line is kept, or it is dropped
\* (a comment, a blank line, a directive)
ReadLine ==
    /\ pc = "read"
    /\ \E line \in PreprocessedLines :
         IF Kept(line)
         THEN /\ SumLen(lines) + Len(line) <= MaxFileLen
              /\ lines' = Append(lines, line)
         ELSE UNCHANGED lines
    /\ UNCHANGED <<pc, idx, symbolTable, currentAddress, stAddr, instructions,
                   instLine, parseAddress>>
    /\ UNCHANGED simVars

\* end of file: readAndPreprocess returns, main checks lines.empty()
ReadEOF ==
    /\ pc = "read"
    /\ pc' = IF lines = <<>> THEN "exit_empty" ELSE "bst"
    /\ idx' = 1
    /\ currentAddress' = INSTRUCTION_MEMORY_START
    /\ UNCHANGED <<lines, symbolTable, stAddr, instructions, instLine, parseAddress>>
    /\ UNCHANGED simVars

BuildSymbolTableStep ==
    /\ pc = "bst"
    /\ idx <= Len(lines)
    /\ LET line == lines[idx]
           hasLabel == ~IsDirective(line) /\ Find(line, ":") # npos
           label == LabelOf(line)
       IN  /\ stAddr' = Append(stAddr, currentAddress)
           /\ IF hasLabel /\ IsBound(symbolTable, label)
              THEN /\ pc' = "exit_dup"
                   /\ UNCHANGED <<symbolTable, currentAddress, idx>>
              ELSE /\ pc' = pc
                   /\ idx' = idx + 1
                   /\ symbolTable' = IF hasLabel
                                     THEN (label :> currentAddress) @@ symbolTable
                                     ELSE symbolTable
                   /\ currentAddress' = IF IsDirective(line) THEN currentAddress
                                        ELSE AdvanceSymbol(line, currentAddress)
    /\ UNCHANGED <<lines, instructions, instLine, parseAddress>>
    /\ UNCHANGED simVars

\* buildSymbolTable returns; parseDataSection runs; parseInstructions begins
BuildSymbolTableReturn ==
    /\ pc = "bst"
    /\ idx > Len(lines)
    /\ pc' = "parse"
    /\ idx' = 1
    /\ parseAddress' = INSTRUCTION_MEMORY_START
    /\ instructions' = <<>>
    /\ instLine' = <<>>
    /\ UNCHANGED <<lines, symbolTable, currentAddress, stAddr>>
    /\ UNCHANGED simVars

ParseInstructionsStep ==
    /\ pc = "parse"
    /\ idx <= Len(lines)
    /\ LET r == ParseLine(lines[idx], parseAddress)
       IN  IF r.kind = "exit"
           THEN /\ pc' = "exit_parse"
                /\ UNCHANGED <<idx, instructions, instLine, parseAddress>>
           ELSE /\ pc' = pc
                /\ idx' = idx + 1
                /\ IF r.kind = "inst"
                   THEN /\ instructions' = Append(instructions, r.inst)
                        /\ instLine' = Append(instLine, idx)
                        /\ parseAddress' = parseAddress + 4
                   ELSE UNCHANGED <<instructions, instLine, parseAddress>>
    /\ UNCHANGED <<lines, symbolTable, currentAddress, stAddr>>
    /\ UNCHANGED simVars

ParseInstructionsReturn ==
    /\ pc = "parse"
    /\ idx > Len(lines)
    /\ pc' = "translate"
    /\ UNCHANGED asmVars
    /\ UNCHANGED simVars

\* translateToOpcode: one word per instruction, or an encoding error
TranslateToOpcode ==
    /\ pc = "translate"
    /\ \E ok \in BOOLEAN :
         /\ (instructions = <<>> => ok)
         /\ pc' = IF ok THEN "sim" ELSE "exit_encode"
    /\ UNCHANGED asmVars
    /\ UNCHANGED simVars

Init ==
    /\ pc = "read"
    /\ lines = <<>>
    /\ idx = 1
    /\ symbolTable = EmptyMap
    /\ currentAddress = INSTRUCTION_MEMORY_START
    /\ stAddr = <<>>
    /\ instructions = <<>>
    /\ instLine = <<>>
    /\ parseAddress = INSTRUCTION_MEMORY_START
    /\ DATA_SEGMENT = EmptyMap
    /\ mem = EmptyMap
    /\ loaded = {}
    /\ simPC = INSTRUCTION_MEMORY_START
    /\ runI = 0
    /\ runSteps = 0
    /\ lastAddr = 0
    /\ edits = 0

Next ==
    \/ ReadLine
    \/ ReadEOF
    \/ BuildSymbolTableStep
    \/ BuildSymbolTableReturn
    \/ ParseInstructionsStep
    \/ ParseInstructionsReturn
    \/ TranslateToOpcode

Spec == Init /\ [][Next]_vars

(***************************************************************************)
(* parseInstructions on one instruction line: a mnemonic and an operand    *)
(* string                                                                  *)
(***************************************************************************)
OperandAlphabet == {"x", ",", "(", ")", " "}

\* operand strings as readAndPreprocess leaves them: no trailing blank
OperandStrings ==
    {b \in StringsUpTo(OperandAlphabet, MaxBody) : b = <<>> \/ b[Len(b)] \notin TrimChars}

InstructionLine(mnemonic, body) ==
    IF body = <<>> THEN mnemonic ELSE mnemonic \o <<" ">> \o body

InstructionLines ==
    {InstructionLine(m, b) : m \in {LW, SW, J}, b \in OperandStrings}

\* main() after buildSymbolTable returned for a one-line program without labels
InitLS ==
    /\ pc = "parse"
    /\ \E line \in InstructionLines : lines = <<line>>
    /\ idx = 1
    /\ symbolTable = EmptyMap
    /\ currentAddress = INSTRUCTION_MEMORY_START + 4
    /\ stAddr = <<INSTRUCTION_MEMORY_START>>
    /\ instructions = <<>>
    /\ instLine = <<>>
    /\ parseAddress = INSTRUCTION_MEMORY_START
    /\ DATA_SEGMENT = EmptyMap
    /\ mem = EmptyMap
    /\ loaded = {}
    /\ simPC = INSTRUCTION_MEMORY_START
    /\ runI = 0
    /\ runSteps = 0
    /\ lastAddr = 0
    /\ edits = 0

NextLS ==
    \/ ParseInstructionsStep
    \/ ParseInstructionsReturn
    \/ TranslateToOpcode

SpecLS == InitLS /\ [][NextLS]_vars

(***************************************************************************)
(* main(), lines 94-172: the simulator, the data segment, the menus        *)
(***************************************************************************)
\* sim.set_memory(addr, v): one byte; an address outside the memory is dropped
set_memory(m, addr, v) ==
    IF addr \in 0..(MEM_SIZE - 1) THEN (addr :> (v % 256)) @@ m ELSE m

\* sim.get_mem(addr): one byte
get_mem(m, addr) == IF addr \in DOMAIN m THEN m[addr] ELSE 0

\* the bytes taken from the high end
ByteOf_BigEndian(val, k) == (val \div (2 ^ (8 * (3 - k)))) % 256

\* (val >> 8k) & 0xFF
ByteOf(val, k) == (val \div (2 ^ (8 * k))) % 256

\* the four set_memory calls of the load loop
LoadWord(m, addr, val) ==
    set_memory(set_memory(set_memory(set_memory(m,
        addr, ByteOf(val, 0)),
        addr + 1, ByteOf(val, 1)),
        addr + 2, ByteOf(val, 2)),
        addr + 3, ByteOf(val, 3))

\* a byte shifted into bits 24..31 of an int32_t
TopByte(b) == (IF b >= 128 THEN b - 256 ELSE b) * (2 ^ 24)

\* the memory viewer's 32-bit word
ViewWord(m, addr) ==
    get_mem(m, addr) + get_mem(m, addr + 1) * (2 ^ 8)
        + get_mem(m, addr + 2) * (2 ^ 16) + TopByte(get_mem(m, addr + 3))

\* values sim.get_pc() takes: the program's addresses and two past its end
ProgramCounters == {INSTRUCTION_MEMORY_START + 4 * k : k \in 0..(MaxInstr + 2)}

\* what instructions.back().address reads when the vector is empty
GarbageAddresses == {0, INSTRUCTION_MEMORY_START + 4}

\* the for-loop over DATA_SEGMENT: one entry, in key order
LoadDataEntry ==
    /\ pc = "sim"
    /\ loaded # DOMAIN DATA_SEGMENT
    /\ LET addr == Min(DOMAIN DATA_SEGMENT \ loaded)
       IN  /\ mem' = LoadWord(mem, addr, DATA_SEGMENT[addr])
           /\ loaded' = loaded \cup {addr}
    /\ UNCHANGED <<pc, DATA_SEGMENT, simPC, runI, runSteps, lastAddr, edits>>
    /\ UNCHANGED asmVars

\* the load loop is over: the pre-execution menu opens
LoadDone ==
    /\ pc = "sim"
    /\ loaded = DOMAIN DATA_SEGMENT
    /\ pc' = "config"
    /\ UNCHANGED <<DATA_SEGMENT, mem, loaded, simPC, runI, runSteps, lastAddr, edits>>
    /\ UNCHANGED asmVars

\* addresses of data-segment entries: overlapping, adjacent, the last viewable word
DataAddresses == {0, 2, 4, WORD_VIEW_LIMIT}

\* addresses the user types: in a loaded word, between two, outside the memory
EditAddresses == {0, 3, MEM_SIZE}

EditValues == {7, 255}

\* pre-execution choice 2: menu_edit_memory
ConfigEditMemory ==
    /\ pc = "config"
    /\ edits < MaxEdits
    /\ \E addr \in EditAddresses, val \in EditValues :
         mem' = set_memory(mem, addr, val)
    /\ edits' = edits + 1
    /\ UNCHANGED <<pc, DATA_SEGMENT, loaded, simPC, runI, runSteps, lastAddr>>
    /\ UNCHANGED asmVars

\* pre-execution choice 3
StartSimulation ==
    /\ pc = "config"
    /\ pc' = "running"
    /\ UNCHANGED <<DATA_SEGMENT, mem, loaded, simPC, runI, runSteps, lastAddr, edits>>
    /\ UNCHANGED asmVars

\* choice 1: sim.step(); of the simulator's state only the PC is kept
Step ==
    /\ pc = "running"
    /\ simPC' \in ProgramCounters
    /\ UNCHANGED <<pc, DATA_SEGMENT, mem, loaded, runI, runSteps, lastAddr, edits>>
    /\ UNCHANGED asmVars

\* choice 2: the for-loop starts, i = 0
RunAllBegin ==
    /\ pc = "running"
    /\ pc' = "runall"
    /\ runI' = 0
    /\ runSteps' = 0
    /\ UNCHANGED <<DATA_SEGMENT, mem, loaded, simPC, lastAddr, edits>>
    /\ UNCHANGED asmVars

\* one iteration: step(), then the test against instructions.back().address + 4;
\* back() of an empty vector is undefined: the read faults or yields garbage
RunAllIteration ==
    /\ pc = "runall"
    /\ runI < RUN_ALL_CAP
    /\ runSteps' = runSteps + 1
    /\ simPC' \in ProgramCounters
    /\ \E outcome \in {"read", "fault"} :
         IF outcome = "fault"
         THEN /\ instructions = <<>>
              /\ pc' = "crashed"
              /\ UNCHANGED <<runI, lastAddr>>
         ELSE /\ lastAddr' \in IF instructions = <<>> THEN GarbageAddresses
                               ELSE {instructions[Len(instructions)].address}
              /\ IF simPC' > lastAddr' + 4
                 THEN pc' = "running" /\ runI' = runI
                 ELSE pc' = "runall" /\ runI' = runI + 1
    /\ UNCHANGED <<DATA_SEGMENT, mem, loaded, edits>>
    /\ UNCHANGED asmVars

\* i reached the cap: back to the menu
RunAllCap ==
    /\ pc = "runall"
    /\ runI >= RUN_ALL_CAP
    /\ pc' = "running"
    /\ UNCHANGED simVars
    /\ UNCHANGED asmVars

\* choice 3: the memory viewer; it changes nothing
ViewMemory ==
    /\ pc = "running"
    /\ \E addr \in DataAddresses \cup EditAddresses :
         addr <= WORD_VIEW_LIMIT => ViewWord(mem, addr) \in Int
    /\ UNCHANGED vars

\* choice 4
Exit ==
    /\ pc = "running"
    /\ pc' = "done"
    /\ UNCHANGED simVars
    /\ UNCHANGED asmVars

\* a program of n instructions as the assembly phase leaves it; the program
\* without instructions is a single bare label
ProgramLines(n) == IF n = 0 THEN <<<<"a", ":">>>> ELSE [k \in 1..n |-> <<"a">>]

ProgramInstructions(n) ==
    [k \in 1..n |-> [mnemonic |-> <<"a">>,
                     address |-> INSTRUCTION_MEMORY_START + 4 * (k - 1),
                     originalLine |-> <<"a">>,
                     operands |-> <<>>]]

Assembled(n) ==
    /\ lines = ProgramLines(n)
    /\ idx = Len(lines) + 1
    /\ symbolTable = IF n = 0 THEN (<<"a">> :> INSTRUCTION_MEMORY_START) ELSE EmptyMap
    /\ currentAddress = INSTRUCTION_MEMORY_START + 4 * n
    /\ stAddr = [k \in 1..Len(lines) |-> INSTRUCTION_MEMORY_START + 4 * (k - 1)]
    /\ instructions = ProgramInstructions(n)
    /\ instLine = [k \in 1..n |-> k]
    /\ parseAddress = INSTRUCTION_MEMORY_START + 4 * n

\* the simulation loop, entered with any program the assembly phase lets through
InitRun ==
    /\ pc = "running"
    /\ \E n \in 0..MaxInstr : Assembled(n)
    /\ DATA_SEGMENT = EmptyMap
    /\ mem = EmptyMap
    /\ loaded = {}
    /\ simPC = INSTRUCTION_MEMORY_START
    /\ runI = 0
    /\ runSteps = 0
    /\ lastAddr = 0
    /\ edits = 0

NextRun ==
    \/ Step
    \/ RunAllBegin
    \/ RunAllIteration
    \/ RunAllCap
    \/ ViewMemory
    \/ Exit

SpecRun == InitRun /\ [][NextRun]_vars

\* 0, 0x12345678, 0xFFFFFFFF, 0x80000001, 0x00008000
SampleWords == {0, 305419896, -1, -2147483647, 32768}

DataSegments ==
    UNION {[S -> SampleWords] :
             S \in {T \in SUBSET DataAddresses : Cardinality(T) <= MaxEntries}}

\* the simulator has just been constructed; parseDataSection left a data segment
InitData ==
    /\ pc = "sim"
    /\ Assembled(1)
    /\ DATA_SEGMENT \in DataSegments
    /\ mem = EmptyMap
    /\ loaded = {}
    /\ simPC = INSTRUCTION_MEMORY_START
    /\ runI = 0
    /\ runSteps = 0
    /\ lastAddr = 0
    /\ edits = 0

NextData ==
    \/ LoadDataEntry
    \/ LoadDone
    \/ ConfigEditMemory
    \/ StartSimulation
    \/ Step
    \/ ViewMemory
    \/ Exit

SpecData == InitData /\ [][NextData]_vars

(***************************************************************************)
(* Vocabulary of the claims                                                *)
(***************************************************************************)
HasLabel(line) == Find(line, ":") # npos

LabelLines(ls) == {i \in DOMAIN ls : HasLabel(ls[i])}

\* the text before the ':' as written, whitespace included
LabelText(line) == Before(line, Find(line, ":"))

HasDuplicateLabel(ls) ==
    \E i, j \in LabelLines(ls) : i < j /\ LabelOf(ls[i]) = LabelOf(ls[j])

\* buildSymbolTable's counter after the i-th line
CounterAfter(i) == IF i < Len(stAddr) THEN stAddr[i + 1] ELSE currentAddress

AfterSymbolTable == pc \in {"parse", "exit_parse", "translate", "exit_encode", "sim"}

AfterParse == pc \in {"translate", "exit_encode", "sim"}

(***************************************************************************)
(* C1.  Every instruction's address is the value buildSymbolTable's        *)
(* counter had on reaching the instruction's line, and the k-th            *)
(* instruction's address is INSTRUCTION_MEMORY_START + 4 * (k - 1).        *)
(***************************************************************************)
C1_AddressesAgree ==
    \A k \in DOMAIN instructions :
        /\ instructions[k].address = stAddr[instLine[k]]
        /\ instructions[k].address = INSTRUCTION_MEMORY_START + 4 * (k - 1)

(***************************************************************************)
(* C2.  A program binding a label twice (names compared with whitespace    *)
(* removed) exits inside buildSymbolTable with no instruction parsed; a    *)
(* symbol table that buildSymbolTable returns binds every label of the     *)
(* program exactly once.                                                   *)
(***************************************************************************)
C2_DuplicateLabelAborts ==
    /\ pc = "exit_dup" =>
          /\ HasDuplicateLabel(lines)
          /\ instructions = <<>>
    /\ AfterSymbolTable =>
          /\ ~HasDuplicateLabel(lines)
          /\ DOMAIN symbolTable = {LabelOf(lines[i]) : i \in LabelLines(lines)}
          /\ Cardinality(DOMAIN symbolTable) = Cardinality(LabelLines(lines))

\* two lines whose labels differ as written and agree once whitespace is
\* removed have stopped the assembler
C2_Witness ==
    /\ pc = "exit_dup"
    /\ \E i, j \in LabelLines(lines) :
          /\ i < j
          /\ LabelText(lines[i]) # LabelText(lines[j])
          /\ LabelOf(lines[i]) = LabelOf(lines[j])

(***************************************************************************)
(* C3.  Once both passes are done: a label with an instruction on its line *)
(* is bound to that instruction's address; a bare label leaves the counter *)
(* alone and is bound to the address of the next instruction.              *)
(***************************************************************************)
C3_LabelBinding ==
    AfterParse =>
      \A i \in LabelLines(lines) :
        LET label == LabelOf(lines[i])
            own == {k \in DOMAIN instructions : instLine[k] = i}
            later == {k \in DOMAIN instructions : instLine[k] > i}
        IN  IF After(lines[i], Find(lines[i], ":")) = <<>>
            THEN /\ CounterAfter(i) = stAddr[i]
                 /\ later # {} =>
                      symbolTable[label] = instructions[Min(later)].address
            ELSE \A k \in own : symbolTable[label] = instructions[k].address

(***************************************************************************)
(* C4.  A directive, also one that follows a label on its line, advances   *)
(* no address counter and yields no ParsedInstruction.                     *)
(***************************************************************************)
C4_DirectivesTakeNoAddress ==
    /\ \A k \in DOMAIN instructions :
          Head(StripLabel(instructions[k].originalLine)) # "."
    /\ \A i \in DOMAIN stAddr :
          LET text == StripLabel(lines[i])
          IN  (text # <<>> /\ Head(text) = ".") => CounterAfter(i) = stAddr[i]

(***************************************************************************)
(* C10.  When main reaches the simulation loop the instruction list is     *)
(* not empty.                                                              *)
(***************************************************************************)
C10_InstructionsNonEmpty == pc = "sim" => instructions # <<>>

\* operands the encoder expects: lw / sw normalised to three, j label
ExpectedArity(mnemonic) == IF IsLoadStore(mnemonic) THEN 3 ELSE 1

\* the operand string of the instruction's source line
OperandText(inst) == OperandString(StripLabel(inst.originalLine))

Chars(s) == {s[i] : i \in DOMAIN s}

\* t is  imm ( base )  with a base register and nothing after the ')'
MatchesImmBase(t) ==
    \E o, c \in DOMAIN t :
        /\ o < c
        /\ t[o] = "("
        /\ t[c] = ")"
        /\ c = Len(t)
        /\ Chars(SubSeq(t, 1, o - 1)) \cap {"(", ")"} = {}
        /\ Chars(SubSeq(t, o + 1, c - 1)) \cap {"(", ")"} = {}
        /\ RemoveSpaces(SubSeq(t, o + 1, c - 1)) # <<>>

\* exactly two comma-separated parts, the second one  imm(base)
WellFormedLoadStore(s) ==
    LET comma == Find(s, ",")
    IN  /\ comma # npos
        /\ Find(After(s, comma), ",") = npos
        /\ MatchesImmBase(Trim(After(s, comma)))

(***************************************************************************)
(* C5.  Every instruction parseInstructions returns has the operand count  *)
(* its mnemonic expects.                                                   *)
(***************************************************************************)
C5_ArityChecked ==
    \A k \in DOMAIN instructions :
        Len(instructions[k].operands) = ExpectedArity(instructions[k].mnemonic)

(***************************************************************************)
(* C6.  Every lw / sw that parseInstructions returns was written with      *)
(* exactly two comma-separated parts, the second of the form imm(base).    *)
(***************************************************************************)
C6_LoadStoreFormat ==
    \A k \in DOMAIN instructions :
        IsLoadStore(instructions[k].mnemonic) =>
            WellFormedLoadStore(OperandText(instructions[k]))

\* the operands are <<register, base, imm>> where the second part of the
\* operand string reads  imm ( X ) ...  and base is X as filtered by Filter
LoadStoreOperandsAre(inst, Filter(_)) ==
    LET s == OperandText(inst)
        comma == Find(s, ",")
        second == Trim(After(s, comma))
        ops == inst.operands
    IN  /\ Len(ops) = 3
        /\ ops[1] = Trim(Before(s, comma))
        /\ "(" \notin Chars(ops[3])
        /\ Len(second) > Len(ops[3])
        /\ SubSeq(second, 1, Len(ops[3]) + 1) = ops[3] \o <<"(">>
        /\ \E n \in (Len(ops[3]) + 2)..Len(second) :
              LET X == SubSeq(second, Len(ops[3]) + 2, n - 1)
              IN  /\ second[n] = ")"
                  /\ ")" \notin Chars(X)
                  /\ ops[2] = Filter(X)

Verbatim(s) == s

(***************************************************************************)
(* C7.  Every lw / sw that parseInstructions returns has three operands:   *)
(* the text before the comma, the text between '(' and ')' with its        *)
(* whitespace removed, and the text before '('.                            *)
(***************************************************************************)
C7_LoadStoreOperands ==
    \A k \in DOMAIN instructions :
        IsLoadStore(instructions[k].mnemonic) =>
            LoadStoreOperandsAre(instructions[k], RemoveSpaces)

\* C7 as first stated: the base register is the text between '(' and ')'
C7_BaseRegisterVerbatim ==
    \A k \in DOMAIN instructions :
        IsLoadStore(instructions[k].mnemonic) =>
            LoadStoreOperandsAre(instructions[k], Verbatim)

\* an accepted lw / sw with a register and a base register written with a
\* blank inside the parentheses
C7_Witness ==
    \E k \in DOMAIN instructions :
        /\ IsLoadStore(instructions[k].mnemonic)
        /\ instructions[k].operands = << <<"x">>, <<"x">>, <<>> >>
        /\ ~LoadStoreOperandsAre(instructions[k], Verbatim)

LastAddress == instructions[Len(instructions)].address

(***************************************************************************)
(* C8.  Run All never faults; it goes on only while the PC is at most the  *)
(* last instruction's address + 4, and it returns to the menu after 1 to   *)
(* 1000 step() calls, before the cap only right after a step() that left   *)
(* the PC beyond that address.                                             *)
(***************************************************************************)
C8_RunAllBounded ==
    [][pc = "runall" =>
          /\ pc' # "crashed"
          /\ instructions # <<>>
          /\ pc' = "runall" /\ runSteps' > runSteps => simPC' <= LastAddress + 4
          /\ pc' = "running" =>
                /\ runSteps' >= 1
                /\ runSteps' <= RUN_ALL_CAP
                /\ simPC' > LastAddress + 4 \/ runSteps' = RUN_ALL_CAP]_vars

\* the same for programs that have an instruction
C8_RunAllBoundedNonEmpty ==
    [][pc = "runall" /\ instructions # <<>> =>
          /\ pc' # "crashed"
          /\ pc' = "runall" /\ runSteps' > runSteps => simPC' <= LastAddress + 4
          /\ pc' = "running" =>
                /\ runSteps' >= 1
                /\ runSteps' <= RUN_ALL_CAP
                /\ simPC' > LastAddress + 4 \/ runSteps' = RUN_ALL_CAP]_vars

\* no other entry's four bytes meet the four bytes at addr
NotOverlapped(addr) ==
    \A other \in DOMAIN DATA_SEGMENT \ {addr} : other + 3 < addr \/ addr + 3 < other

====
